---- MODULE Spec2Model ----
(***************************************************************************)
(* Model of streamlit_app.py: the questions table and its insert path      *)
(* (add_question), the bulk parser (parse_json_questions), the admin page  *)
(* (admin_add_questions: single-entry form and bulk upload), the quiz page *)
(* (take_quiz, one action per render) and the scoring pass (submit_quiz).  *)
(***************************************************************************)
EXTENDS Integers, Sequences, FiniteSets, TLC

VARIABLES
    questions_table,  \* rows of table 'questions', in insertion order
    id_seq,           \* next value of the autoincrement sequence of questions.id
    session_state,    \* st.session_state: a map from the keys that are set to their values
    now,              \* datetime.now(), in minutes
    widgets,          \* what the visitor's quiz page holds since its last run
    out               \* what the last run of a page showed, and the inputs it was run with

vars == <<questions_table, id_seq, session_state, now, widgets, out>>

(***************************************************************************)
(* Bounds                                                                  *)
(***************************************************************************)
MaxStore == 2      \* rows the table may hold
MaxBatch == 2      \* records in one uploaded list
MaxNow == 15       \* the clock stops advancing here
MaxSeq == 3        \* the id sequence stops handing out values after this one
MaxScoreQ == 2     \* questions in a scoring input (ScoreSpec)

(***************************************************************************)
(* Values                                                                  *)
(***************************************************************************)
Options == {"A", "B", "C", "D"}
Null == "<None>"                \* Python None / SQL NULL / a radio with nothing selected
NoAnswer == "No Answer"
EmptyMap == [k \in {} |-> 0]

Columns ==
    {"id", "question_text", "option_a", "option_b", "option_c", "option_d",
     "correct_option", "explanation"}

NotNullColumns ==
    {"question_text", "option_a", "option_b", "option_c", "option_d", "correct_option"}

required_fields ==
    {"question_text", "option_a", "option_b", "option_c", "option_d",
     "correct_option", "explanation"}

\* Question(**question_data): an attribute that is not given stays None.
Attr(q, k) == IF k \in DOMAIN q THEN q[k] ELSE Null

Ids(rows) == {rows[i].id : i \in 1..Len(rows)}

(***************************************************************************)
(* Question Store                                                          *)
(***************************************************************************)
\* The row the INSERT would write, given the id it gets.
NewRow(q, newid) ==
    [id |-> newid,
     question_text |-> Attr(q, "question_text"),
     option_a |-> Attr(q, "option_a"),
     option_b |-> Attr(q, "option_b"),
     option_c |-> Attr(q, "option_c"),
     option_d |-> Attr(q, "option_d"),
     correct_option |-> Attr(q, "correct_option"),
     explanation |-> Attr(q, "explanation")]

\* The table created without its CheckConstraint.
correct_option_unchecked(row) == TRUE

\* CheckConstraint correct_option_check.
correct_option_check(row) == row.correct_option \in Options

\* nullable=False on the six columns.
not_null_check(row) == \A c \in NotNullColumns : row[c] # Null

\* primary_key=True.
primary_key_check(rows, row) == row.id \notin Ids(rows)

\* add_question: the result (True/False) with the table and the sequence after
\* the call.  An unknown keyword makes Question(**question_data) raise before
\* anything reaches the database; a constraint violation makes commit() raise
\* after the sequence has handed out its value.  Both are caught.
add_question(rows, seq, q) ==
    IF ~(DOMAIN q \subseteq Columns)
    THEN [ok |-> FALSE, rows |-> rows, seq |-> seq]
    ELSE LET explicit == "id" \in DOMAIN q
             newid == IF explicit THEN q.id ELSE seq
             seq1 == IF explicit THEN seq ELSE seq + 1
             row == NewRow(q, newid)
         IN  IF correct_option_check(row) /\ not_null_check(row)
                /\ primary_key_check(rows, row)
             THEN [ok |-> TRUE, rows |-> Append(rows, row), seq |-> seq1]
             ELSE [ok |-> FALSE, rows |-> rows, seq |-> seq1]

\* fetch_all_questions: every row, or [] when the query raises.
fetch_all_questions(rows, query_ok) == IF query_ok THEN rows ELSE <<>>

(***************************************************************************)
(* Scoring & Review Engine                                                 *)
(***************************************************************************)
\* answer_of with the radio's first option as the default.
answer_of_first_option(answers, question) ==
    IF question.id \in DOMAIN answers THEN answers[question.id] ELSE "A"

\* st.session_state.answers.get(question.id, "No Answer")
answer_of(answers, question) ==
    IF question.id \in DOMAIN answers THEN answers[question.id] ELSE NoAnswer

\* One pass of the loop of submit_quiz: the entry appended to results.
result_record(answers, question) ==
    LET user_answer == answer_of(answers, question)
    IN  [your_answer |-> user_answer,
         correct_answer |-> question.correct_option,
         correct |-> (user_answer = question.correct_option)]

\* submit_quiz: the score and the results, in the order of the questions.
RECURSIVE submit_quiz(_, _)
submit_quiz(questions, answers) ==
    IF questions = <<>>
    THEN [score |-> 0, results |-> <<>>]
    ELSE LET n == Len(questions)
             rest == submit_quiz(SubSeq(questions, 1, n - 1), answers)
             rec == result_record(answers, questions[n])
         IN  [score |-> IF rec.correct THEN rest.score + 1 ELSE rest.score,
              results |-> Append(rest.results, rec)]

\* review_answers: one entry per question, computed as in submit_quiz.
review_answers(questions, answers) ==
    [i \in 1..Len(questions) |-> result_record(answers, questions[i])]

(***************************************************************************)
(* What a run of a page shows                                              *)
(***************************************************************************)
NoResult == [score |-> 0, results |-> <<>>]

Blank ==
    [op |-> "none", view |-> "none", input |-> <<>>,
     n |-> 0, scored |-> FALSE, result |-> NoResult, reviewed |-> FALSE,
     outcomes |-> <<>>, success_count |-> 0, attempts |-> 0]

(***************************************************************************)
(* Quiz Session Controller                                                 *)
(***************************************************************************)
TimeLimitMinutes == 15

Buttons == {"none", "Previous", "Save for Later", "Next", "Submit"}

\* The early return with the session state set up before it.
after_no_questions_initialised(ss, t) ==
    [k \in {"current_question", "answers", "start_time", "time_limit"} |->
        IF k \in DOMAIN ss THEN ss[k]
        ELSE IF k = "current_question" THEN 0
        ELSE IF k = "answers" THEN EmptyMap
        ELSE IF k = "start_time" THEN t
        ELSE TimeLimitMinutes]

\* Lines 191-193: the return comes before line 196, st.session_state is as it was.
after_no_questions(ss, t) == ss

\* initialize taking the start time anew in every run.
initialize_restarts(ss, t) ==
    LET default == [current_question |-> 0, answers |-> EmptyMap,
                    start_time |-> t, time_limit |-> TimeLimitMinutes]
    IN  [k \in DOMAIN default |->
            IF k \in DOMAIN ss /\ k # "start_time" THEN ss[k] ELSE default[k]]

\* Lines 196-203: each key that is not in st.session_state gets its default.
initialize(ss, t) ==
    LET default == [current_question |-> 0, answers |-> EmptyMap,
                    start_time |-> t, time_limit |-> TimeLimitMinutes]
    IN  [k \in DOMAIN default |-> IF k \in DOMAIN ss THEN ss[k] ELSE default[k]]

\* time_up with the test of line 209 never true.
time_up_never(ss, t) == FALSE

\* time_up with the boundary left out: remaining_time < timedelta(0).
time_up_strict(ss, t) ==
    ss.time_limit - (t - ss.start_time) < 0

\* Lines 206-209: remaining_time <= timedelta(0).
time_up(ss, t) ==
    LET elapsed_time == t - ss.start_time
        remaining_time == ss.time_limit - elapsed_time
    IN  remaining_time <= 0

\* save_answer building the map anew, with the one entry.
save_answer_alone(answers, question, selected) ==
    IF selected # Null
    THEN [k \in {question.id} |-> selected]
    ELSE answers

\* save_answer that stores nothing.
save_answer_dropped(answers, question, selected) == answers

\* Lines 233-234: the selected option is stored under the question's id.
save_answer(answers, question, selected) ==
    IF selected # Null
    THEN [k \in DOMAIN answers \cup {question.id} |->
             IF k = question.id THEN selected ELSE answers[k]]
    ELSE answers

\* press_previous without the test current_question > 0.
press_previous_unguarded(current, clicked) ==
    IF clicked = "Previous" THEN current - 1 ELSE current

\* Lines 239-240.
press_previous(current, clicked) ==
    IF clicked = "Previous" /\ current > 0 THEN current - 1 ELSE current

\* press_next with Submit at the last question moving on as Next does.
press_next_on_submit(current, n, clicked) ==
    IF clicked = "Next" /\ current < n - 1 THEN current + 1
    ELSE IF clicked = "Submit" /\ current = n - 1 THEN current + 1
    ELSE current

\* press_next with the test current_question < len(questions).
press_next_past_last(current, n, clicked) ==
    IF clicked = "Next" /\ current < n THEN current + 1 ELSE current

\* Lines 246-247.
press_next(current, n, clicked) ==
    IF clicked = "Next" /\ current < n - 1 THEN current + 1 ELSE current

\* Line 248: the Submit button is drawn unless Next was pressed and applied.
press_submit(current, n, clicked) ==
    /\ ~(clicked = "Next" /\ current < n - 1)
    /\ clicked = "Submit"
    /\ current = n - 1

\* A button can be clicked, and the Review box ticked, only where the last run
\* of the page drew it: the buttons with a question (lines 237-249), the box
\* with a question or after it (line 255), neither on the two early returns.
can_happen(inp) ==
    /\ inp.clicked # "none" => widgets = "question"
    /\ inp.review => widgets \in {"question", "completed"}

\* take_quiz, one run of the page.  inp: the widgets' values in this run
\* (clicked, selected, review) and whether the query of the table succeeds.
take_quiz(inp) ==
    LET questions == fetch_all_questions(questions_table, inp.query_ok)
        n == Len(questions)
        shown == [Blank EXCEPT !.op = "take_quiz", !.input = inp, !.n = n]
    IN  /\ can_happen(inp)
        /\ UNCHANGED <<questions_table, id_seq, now>>
        /\ IF n = 0
           THEN /\ out' = [shown EXCEPT !.view = "no_questions"]
                /\ session_state' = after_no_questions(session_state, now)
           ELSE LET ss == initialize(session_state, now)
                IN  IF time_up(ss, now)
                    THEN /\ session_state' = [ss EXCEPT !.current_question = n]
                         /\ out' = [shown EXCEPT !.view = "time_up", !.scored = TRUE,
                                       !.result = submit_quiz(questions, ss.answers)]
                    ELSE IF ss.current_question < n
                    THEN LET question == questions[ss.current_question + 1]
                             answers == save_answer(ss.answers, question, inp.selected)
                             prev == press_previous(ss.current_question, inp.clicked)
                             next == press_next(prev, n, inp.clicked)
                             submit == press_submit(prev, n, inp.clicked)
                         IN  /\ session_state' = [ss EXCEPT !.answers = answers,
                                                            !.current_question = next]
                             /\ out' = [shown EXCEPT
                                           !.view = "question",
                                           !.scored = submit,
                                           !.result = IF submit
                                                      THEN submit_quiz(questions, answers)
                                                      ELSE NoResult,
                                           !.reviewed = inp.review]
                    ELSE /\ session_state' = ss
                         /\ out' = [shown EXCEPT
                                       !.view = "completed", !.scored = TRUE,
                                       !.result = submit_quiz(questions, ss.answers),
                                       !.reviewed = inp.review]
        /\ widgets' = out'.view

(***************************************************************************)
(* Bulk Importer and Admin Intake                                          *)
(***************************************************************************)
\* parse_json_questions.  A payload is the uploaded text by what json.loads
\* makes of it: a list (of objects), another JSON value, or a decode error.
\* The result: the list returned, and whether st.error was called.
parse_json_questions(payload) ==
    IF payload.kind = "malformed"
    THEN [questions |-> <<>>, error_shown |-> TRUE]
    ELSE IF payload.kind = "list"
    THEN [questions |-> payload.records, error_shown |-> FALSE]
    ELSE [questions |-> <<>>, error_shown |-> FALSE]

\* has_required_fields with 'explanation' left out of the list.
has_fields_but_explanation(q) == NotNullColumns \subseteq DOMAIN q

\* Line 366: all(field in q for field in required_fields).
has_required_fields(q) == required_fields \subseteq DOMAIN q

\* form_filled with option_c left out of the list.
form_filled_but_option_c(q) ==
    \A f \in NotNullColumns \ {"option_c"} : q[f] # ""

\* Line 346: all([question_text, option_a, ..., correct_option]).
form_filled(q) ==
    \A f \in NotNullColumns : q[f] # ""

\* bulk_loop leaving the loop at the first insert that fails.
RECURSIVE bulk_loop_stops_at_failure(_, _)
bulk_loop_stops_at_failure(acc, questions) ==
    IF questions = <<>>
    THEN acc
    ELSE LET q == Head(questions)
         IN  IF has_required_fields(q)
             THEN LET r == add_question(acc.rows, acc.seq, q)
                  IN  IF r.ok
                      THEN bulk_loop_stops_at_failure(
                               [rows |-> r.rows, seq |-> r.seq,
                                success_count |-> acc.success_count + 1,
                                attempts |-> acc.attempts + 1,
                                outcomes |-> Append(acc.outcomes, "added")],
                               Tail(questions))
                      ELSE [acc EXCEPT !.seq = r.seq, !.attempts = @ + 1,
                                       !.outcomes = Append(@, "failed")]
             ELSE bulk_loop_stops_at_failure(
                      [acc EXCEPT !.outcomes = Append(@, "skipped")], Tail(questions))

\* Lines 362-371: the loop over the parsed records, from the state acc.
RECURSIVE bulk_loop(_, _)
bulk_loop(acc, questions) ==
    IF questions = <<>>
    THEN acc
    ELSE LET q == Head(questions)
         IN  IF has_required_fields(q)
             THEN LET r == add_question(acc.rows, acc.seq, q)
                  IN  bulk_loop(
                          [rows |-> r.rows, seq |-> r.seq,
                           success_count |-> IF r.ok THEN acc.success_count + 1
                                             ELSE acc.success_count,
                           attempts |-> acc.attempts + 1,
                           outcomes |-> Append(acc.outcomes,
                                               IF r.ok THEN "added" ELSE "failed")],
                          Tail(questions))
             ELSE bulk_loop([acc EXCEPT !.outcomes = Append(@, "skipped")],
                            Tail(questions))

\* admin_add_questions, "Single Entry (Form)", the form submitted with fields q.
admin_add_form(q) ==
    /\ Len(questions_table) < MaxStore
    /\ id_seq <= MaxSeq
    /\ UNCHANGED <<session_state, now, widgets>>
    /\ IF form_filled(q)
       THEN LET r == add_question(questions_table, id_seq, q)
            IN  /\ questions_table' = r.rows
                /\ id_seq' = r.seq
                /\ out' = [Blank EXCEPT
                              !.op = "form", !.input = q, !.attempts = 1,
                              !.outcomes = <<IF r.ok THEN "added" ELSE "failed">>,
                              !.success_count = IF r.ok THEN 1 ELSE 0,
                              !.view = IF r.ok THEN "Question added successfully!"
                                       ELSE "Failed to add question."]
       ELSE /\ UNCHANGED <<questions_table, id_seq>>
            /\ out' = [Blank EXCEPT !.op = "form", !.input = q,
                                    !.view = "Please fill in all fields."]

\* admin_add_questions, "Bulk Entry (JSON)", a file uploaded.
admin_add_bulk(payload) ==
    /\ Len(questions_table) + Len(payload.records) <= MaxStore
    /\ id_seq + Len(payload.records) <= MaxSeq + 1
    /\ UNCHANGED <<session_state, now, widgets>>
    /\ LET questions == parse_json_questions(payload).questions
           error_shown == parse_json_questions(payload).error_shown
           shown == [Blank EXCEPT !.op = "bulk", !.input = payload,
                                  !.n = Len(questions)]
       IN  IF questions # <<>>
           THEN LET r == bulk_loop([rows |-> questions_table, seq |-> id_seq,
                                    success_count |-> 0, attempts |-> 0,
                                    outcomes |-> <<>>], questions)
                IN  /\ questions_table' = r.rows
                    /\ id_seq' = r.seq
                    /\ out' = [shown EXCEPT !.view = "Successfully added",
                                            !.success_count = r.success_count,
                                            !.attempts = r.attempts,
                                            !.outcomes = r.outcomes]
           ELSE /\ UNCHANGED <<questions_table, id_seq>>
                /\ out' = [shown EXCEPT !.view = IF error_shown
                                                 THEN "Invalid JSON format."
                                                 ELSE "none"]

(***************************************************************************)
(* The clock                                                               *)
(***************************************************************************)
Steps == {10, 15}

Tick ==
    /\ \E d \in Steps : now + d <= MaxNow /\ now' = now + d
    /\ UNCHANGED <<questions_table, id_seq, session_state, widgets, out>>

(***************************************************************************)
(* Inputs                                                                  *)
(***************************************************************************)
With(q, k, v) == [x \in DOMAIN q \cup {k} |-> IF x = k THEN v ELSE q[x]]
Without(q, k) == [x \in DOMAIN q \ {k} |-> q[x]]

\* A complete record with correct_option c.
Base(c) ==
    [question_text |-> "t", option_a |-> "t", option_b |-> "t", option_c |-> "t",
     option_d |-> "t", correct_option |-> c, explanation |-> "t"]

\* What the form can be submitted with: the selectbox always holds one of A-D.
FormInputs ==
    {Base("A"), Base("B")}
    \cup {With(Base("A"), f, "") : f \in required_fields \ {"correct_option"}}

\* Objects of an uploaded list.
Records ==
    {Base("A"), Base("B"), Base("E"),
     Without(Base("A"), "explanation"),
     With(Base("A"), "option_c", ""),
     With(Base("A"), "question_text", Null),
     With(Base("A"), "id", 2),
     With(Base("A"), "difficulty", "t")}

RECURSIVE SeqsUpTo(_, _)
SeqsUpTo(S, n) ==
    IF n = 0 THEN {<<>>}
    ELSE LET shorter == SeqsUpTo(S, n - 1)
         IN  shorter \cup {Append(s, x) : s \in shorter, x \in S}

Payloads ==
    {[kind |-> "list", records |-> s] : s \in SeqsUpTo(Records, MaxBatch)}
    \cup {[kind |-> "object", records |-> <<>>], [kind |-> "malformed", records |-> <<>>]}

\* The widgets of the quiz page in one run.  A run whose query fails is taken
\* with no widget touched: nothing of the page is drawn in it.
QuizInputs ==
    [clicked : Buttons, selected : {Null, "A", "B"}, review : BOOLEAN, query_ok : {TRUE}]
    \cup {[clicked |-> "none", selected |-> Null, review |-> FALSE, query_ok |-> FALSE]}

\* The admin's inputs while a quiz is being taken.
QuizFormInputs == {Base("A"), Base("B"), With(Base("A"), "option_c", "")}
QuizPayloads ==
    {[kind |-> "list", records |-> <<Base("A")>>], [kind |-> "object", records |-> <<>>]}

(***************************************************************************)
(* Specifications                                                          *)
(***************************************************************************)
Init ==
    /\ questions_table = <<>>
    /\ id_seq = 1
    /\ session_state = EmptyMap
    /\ now = 0
    /\ widgets = "none"
    /\ out = Blank

Next ==
    \/ Tick
    \/ \E inp \in QuizInputs : take_quiz(inp)
    \/ \E q \in QuizFormInputs : admin_add_form(q)
    \/ \E p \in QuizPayloads : admin_add_bulk(p)

Spec == Init /\ [][Next]_vars

AdminNext ==
    \/ \E q \in FormInputs : admin_add_form(q)
    \/ \E p \in Payloads : admin_add_bulk(p)

AdminSpec == Init /\ [][AdminNext]_vars

\* The scoring pass on its own: every list of up to MaxScoreQ questions with
\* distinct ids, every map from some of the ids to the letters.
RECURSIVE QuestionLists(_)
QuestionLists(n) ==
    IF n = 0 THEN {<<>>}
    ELSE LET shorter == QuestionLists(n - 1)
         IN  shorter \cup
             UNION {{Append(s, NewRow(Base(c), i)) :
                        i \in (1..MaxScoreQ) \ Ids(s), c \in Options} : s \in shorter}

AnswerMaps == UNION {[D -> Options] : D \in SUBSET (1..MaxScoreQ)}

ScoreInit ==
    /\ questions_table \in QuestionLists(MaxScoreQ)
    /\ id_seq = MaxScoreQ + 1
    /\ \E a \in AnswerMaps :
           session_state = [initialize(EmptyMap, 0) EXCEPT !.answers = a]
    /\ now = 0
    /\ widgets = "question"
    /\ out = Blank

\* submit_quiz(session, questions) called on the state.
score_step ==
    /\ out.op = "none"
    /\ out' = [Blank EXCEPT !.op = "submit_quiz", !.n = Len(questions_table),
                            !.scored = TRUE,
                            !.result = submit_quiz(questions_table, session_state.answers)]
    /\ UNCHANGED <<questions_table, id_seq, session_state, now, widgets>>

ScoreNext == score_step

ScoreSpec == ScoreInit /\ [][ScoreNext]_vars

\* The visitor and the clock on a table that already holds questions.  The
\* clock runs until the session, once begun, has reached start_time +
\* time_limit; before the session begins it runs up to MaxNow.
LiveInit ==
    /\ \E n \in 1..MaxStore :
           /\ questions_table = [i \in 1..n |-> NewRow(Base("A"), i)]
           /\ id_seq = n + 1
    /\ session_state = EmptyMap
    /\ now = 0
    /\ widgets = "none"
    /\ out = Blank

LiveTick ==
    /\ \E d \in Steps :
           /\ IF "start_time" \in DOMAIN session_state
              THEN now < session_state.start_time + session_state.time_limit
              ELSE now + d <= MaxNow
           /\ now' = now + d
    /\ UNCHANGED <<questions_table, id_seq, session_state, widgets, out>>

\* The visitor's inputs without the Review box and with one letter to choose:
\* no step to Complete reads the box or tells the letters apart.
LiveInputs == {inp \in QuizInputs : ~inp.review /\ inp.selected \in {Null, "A"}}

\* A run of the quiz page whose query succeeds.
LiveRender == \E inp \in LiveInputs : inp.query_ok /\ take_quiz(inp)

LiveNext ==
    \/ LiveTick
    \/ \E inp \in LiveInputs : take_quiz(inp)

\* The clock keeps advancing and the visitor keeps running the page.
LiveSpec ==
    /\ LiveInit
    /\ [][LiveNext]_vars
    /\ WF_vars(LiveTick)
    /\ WF_vars(LiveRender)

(***************************************************************************)
(* Properties of the quiz page                                             *)
(***************************************************************************)
Initialised == DOMAIN session_state # {}

\* A step that is a run of the quiz page (with the input out' records), the
\* query succeeding on a table that is not empty.
QuizRender ==
    /\ out'.op = "take_quiz"
    /\ take_quiz(out'.input)
    /\ out'.input.query_ok
    /\ questions_table # <<>>

\* now - start_time >= time_limit, for the run that starts in this state.
TimeIsUp ==
    /\ "start_time" \in DOMAIN session_state
    /\ now - session_state.start_time >= session_state.time_limit

\* The index the run starts from.
IndexBefore ==
    IF "current_question" \in DOMAIN session_state
    THEN session_state.current_question ELSE 0

\* The number of questions q with answers[q.id] = q.correct_option.
CorrectCount(questions, answers) ==
    Cardinality({i \in 1..Len(questions) :
                    /\ questions[i].id \in DOMAIN answers
                    /\ answers[questions[i].id] = questions[i].correct_option})

\* C1: a run of the quiz page with at least one question in which
\* now - start_time >= time_limit ends with current_question = N and the quiz
\* scored over the answers as they were, whatever was clicked or selected.
C1_TimerExpiryWins ==
    [][(QuizRender /\ TimeIsUp) =>
              /\ session_state'.current_question = Len(questions_table)
              /\ session_state'.answers = session_state.answers
              /\ out'.view = "time_up"
              /\ out'.scored
              /\ out'.result.score = CorrectCount(questions_table, session_state.answers)
      ]_vars

C1_Witness ==
    /\ out.op = "take_quiz" /\ out.view = "time_up"
    /\ out.input.clicked = "Next" /\ out.input.selected # Null
    /\ out.n >= 2
    /\ session_state.current_question = out.n

\* C2: after a run in which Submit at index N-1 scored the quiz the index is N,
\* and a following run of the page does not show a question again.
C2_CompleteBySubmitIsTerminal ==
    [][(QuizRender /\ out.op = "take_quiz" /\ out.view = "question" /\ out.scored) =>
              /\ session_state.current_question = out.n
              /\ out'.view # "question"
      ]_vars

\* C3: the index of an initialised session lies in 0..question_count.
C3_IndexInRange ==
    "current_question" \in DOMAIN session_state =>
        /\ session_state.current_question \in Int
        /\ 0 <= session_state.current_question
        /\ session_state.current_question <= Len(questions_table)

\* The timer set the index to N, then the admin added a question.
C3_Witness ==
    /\ Initialised
    /\ out.op = "bulk" /\ out.success_count = 1
    /\ session_state.current_question > 0
    /\ session_state.current_question = Len(questions_table) - 1

\* C4: while time remains Previous gives max(0, index-1), Next gives
\* min(N-1, index+1), Submit away from N-1 does nothing; and the quiz is scored
\* only by Submit at N-1, with the index at N, or when the time is up.
C4_NavigationBounded ==
    [][QuizRender =>
              LET inp == out'.input
                  i == IndexBefore
                  n == Len(questions_table)
                  j == session_state'.current_question
              IN  /\ (~TimeIsUp /\ inp.clicked = "Previous") =>
                         j = (IF i - 1 > 0 THEN i - 1 ELSE 0)
                  /\ (~TimeIsUp /\ inp.clicked = "Next") =>
                         j = (IF i + 1 < n - 1 THEN i + 1 ELSE n - 1)
                  /\ (~TimeIsUp /\ inp.clicked \in {"none", "Save for Later"}) => j = i
                  /\ (~TimeIsUp /\ inp.clicked = "Submit" /\ i # n - 1) =>
                         (j = i /\ ~out'.scored)
                  /\ out'.scored =>
                         \/ inp.clicked = "Submit" /\ i = n - 1
                         \/ i >= n
                         \/ TimeIsUp
      ]_vars

\* Next pressed on the last of at least two questions.
C4_Witness ==
    /\ out.op = "take_quiz" /\ out.view = "question"
    /\ out.input.clicked = "Next"
    /\ out.n >= 2
    /\ session_state.current_question = out.n - 1

(***************************************************************************)
(* Properties of the scoring pass                                          *)
(***************************************************************************)
\* C5: the score is the number of questions whose recorded answer is the
\* correct option; a question with no recorded answer is reported as
\* "No Answer" and as not correct.
C5_ScoreIsCorrectCount ==
    out.scored =>
        LET questions == questions_table
            answers == session_state.answers
            results == out.result.results
        IN  /\ out.result.score = CorrectCount(questions, answers)
            /\ Len(results) = Len(questions)
            /\ \A i \in 1..Len(questions) :
                  questions[i].id \notin DOMAIN answers =>
                      (results[i].your_answer = NoAnswer /\ ~results[i].correct)

\* Two questions, one answered correctly, one not answered.
C5_Witness ==
    /\ out.op = "submit_quiz"
    /\ Len(questions_table) = 2
    /\ out.result.score = 1
    /\ \E i \in 1..2 : out.result.results[i].your_answer = NoAnswer

(***************************************************************************)
(* Properties of the admin page                                            *)
(***************************************************************************)
\* A step that is a bulk upload, a step that is a form submission (with the
\* input out' records).
BulkRun == out'.op = "bulk" /\ admin_add_bulk(out'.input)
FormRun == out'.op = "form" /\ admin_add_form(out'.input)

\* The seven fields of a row or of a record, None where the record has none.
Content(q) == [f \in required_fields |-> Attr(q, f)]

Missing(q) == \E f \in required_fields : f \notin DOMAIN q

HowMany(outcomes, what) ==
    Cardinality({i \in 1..Len(outcomes) : outcomes[i] = what})

\* The index of the k-th record of the upload that was added.
AddedIndex(outcomes, k) ==
    CHOOSE j \in 1..Len(outcomes) :
        /\ outcomes[j] = "added"
        /\ Cardinality({i \in 1..j : outcomes[i] = "added"}) = k

\* The rows a bulk upload appended are the records it reports as added.
AppendedAreTheAdded(before, after, recs, outcomes) ==
    /\ Len(after) = Len(before) + HowMany(outcomes, "added")
    /\ SubSeq(after, 1, Len(before)) = before
    /\ \A k \in 1..HowMany(outcomes, "added") :
          Content(after[Len(before) + k]) = Content(recs[AddedIndex(outcomes, k)])

\* C6: an insert of a record whose correct_option is not one of A-D returns
\* failure to the loop, which goes on; it adds no row and changes none.
C6_BadCorrectOptionRejected ==
    [][BulkRun =>
          LET recs == out'.input.records
              outcomes == out'.outcomes
          IN  /\ Len(outcomes) = Len(recs)
              /\ \A i \in 1..Len(recs) :
                    Attr(recs[i], "correct_option") \notin Options =>
                        outcomes[i] \in {"failed", "skipped"}
              /\ AppendedAreTheAdded(questions_table, questions_table', recs, outcomes)
              /\ (\A i \in 1..Len(recs) : Attr(recs[i], "correct_option") \notin Options)
                    => questions_table' = questions_table
      ]_vars

\* An upload whose record with correct_option "E" was tried and failed.
C6_Witness ==
    /\ out.op = "bulk"
    /\ \E i \in 1..Len(out.outcomes) :
          /\ out.input.records[i].correct_option = "E"
          /\ out.outcomes[i] = "failed"

MeetsConstraints(q) ==
    /\ DOMAIN q \subseteq Columns
    /\ \A c \in NotNullColumns : Attr(q, c) # Null
    /\ Attr(q, "correct_option") \in Options

\* The id the j-th record of an upload gets: its own, or the next value of the
\* sequence, which every earlier record that reached the INSERT without an id
\* of its own has moved on by one.
IdAt(recs, seq, j) ==
    IF "id" \in DOMAIN recs[j]
    THEN recs[j].id
    ELSE seq + Cardinality({i \in 1..(j - 1) :
                               /\ ~Missing(recs[i])
                               /\ DOMAIN recs[i] \subseteq Columns
                               /\ "id" \notin DOMAIN recs[i]})

\* The ids in the table when the j-th record of an upload is tried.
IdsAt(before, after, outcomes, j) ==
    Ids(SubSeq(after, 1,
               Len(before) + Cardinality({i \in 1..(j - 1) : outcomes[i] = "added"})))

C9_NotAListIsReported ==
    (out.op = "bulk" /\ out.input.kind # "list") =>
        /\ out.n = 0
        /\ out.attempts = 0
        /\ out.view = "Invalid JSON format."

\* C10: a form submitted with one of the six fields empty is rejected with a
\* message and without an insert; with all six filled, one insert is tried and
\* its result reported.
C10_FormValidation ==
    [][FormRun =>
          LET q == out'.input
              empty == \E f \in NotNullColumns : q[f] = ""
              n == Len(questions_table)
          IN  /\ empty =>
                    /\ out'.view = "Please fill in all fields."
                    /\ out'.attempts = 0
                    /\ questions_table' = questions_table
                    /\ id_seq' = id_seq
              /\ ~empty =>
                    /\ out'.attempts = 1
                    /\ \/ /\ out'.view = "Question added successfully!"
                          /\ Len(questions_table') = n + 1
                          /\ SubSeq(questions_table', 1, n) = questions_table
                          /\ Content(questions_table'[n + 1]) = Content(q)
                       \/ /\ out'.view = "Failed to add question."
                          /\ questions_table' = questions_table
      ]_vars

\* The form submitted with option_c empty.
C10_Witness ==
    /\ out.op = "form"
    /\ out.input.option_c = ""
    /\ out.view = "Please fill in all fields."
    /\ out.attempts = 0

(***************************************************************************)
(* Properties of the stored questions                                      *)
(***************************************************************************)
\* C11: every stored question has a non-empty question_text, four non-empty
\* options and a correct_option among A-D.
C11_StoredQuestionsFilled ==
    \A i \in 1..Len(questions_table) :
        LET row == questions_table[i]
        IN  /\ \A f \in NotNullColumns : row[f] # "" /\ row[f] # Null
            /\ row.correct_option \in Options

\* The value the id sequence holds when the j-th record of an upload is tried.
SeqAt(recs, seq, j) ==
    seq + Cardinality({i \in 1..(j - 1) :
                          /\ ~Missing(recs[i])
                          /\ DOMAIN recs[i] \subseteq Columns
                          /\ "id" \notin DOMAIN recs[i]})

\* C12: the id of a stored question is the one the store's sequence hands out,
\* whatever the submitted record holds; ids are pairwise distinct; a stored
\* question keeps its id.
C12_IdsAssignedByStore ==
    [][(BulkRun \/ FormRun) =>
          LET recs == IF out'.op = "bulk" THEN out'.input.records ELSE <<out'.input>>
              outcomes == out'.outcomes
              before == questions_table
              after == questions_table'
          IN  /\ SubSeq(after, 1, Len(before)) = before
              /\ \A i, j \in 1..Len(after) : i # j => after[i].id # after[j].id
              /\ \A k \in 1..(Len(after) - Len(before)) :
                    after[Len(before) + k].id =
                        SeqAt(recs, id_seq, AddedIndex(outcomes, k))
      ]_vars

(***************************************************************************)
(* Properties of the session state                                         *)
(***************************************************************************)
AnswersOf(ss) == IF "answers" \in DOMAIN ss THEN ss.answers ELSE EmptyMap

\* A step that is a run of the quiz page, whatever the query gives.
QuizRun == out'.op = "take_quiz" /\ take_quiz(out'.input)

\* C13: no step removes an entry of answers; every value is one of A-D; an
\* entry is added or overwritten only by a run that shows a question, under
\* the id of that question, with the option selected in that run.
C13_AnswersOnlyGrow ==
    [][LET old == AnswersOf(session_state)
           new == AnswersOf(session_state')
       IN  /\ DOMAIN old \subseteq DOMAIN new
           /\ \A k \in DOMAIN new : new[k] \in Options
           /\ \A k \in DOMAIN new :
                 (k \notin DOMAIN old \/ new[k] # old[k]) =>
                     /\ QuizRender
                     /\ out'.view = "question"
                     /\ k = questions_table[IndexBefore + 1].id
                     /\ new[k] = out'.input.selected
      ]_vars

\* Both questions answered, the first answer kept while the second was given.
C13_Witness ==
    /\ out.op = "take_quiz" /\ out.view = "question"
    /\ out.input.clicked = "Previous"
    /\ out.input.selected = "B"
    /\ session_state.current_question = 0
    /\ DOMAIN session_state.answers = {1, 2}
    /\ session_state.answers[1] = "A"
    /\ session_state.answers[2] = "B"

\* C14: a run whose fetch gives no question (empty table or failed query)
\* shows the notice, leaves st.session_state as it was and scores nothing.
C14_NoQuestionsNoState ==
    [][(QuizRun /\ (questions_table = <<>> \/ ~out'.input.query_ok)) =>
          /\ out'.view = "no_questions"
          /\ session_state' = session_state
          /\ ~out'.scored
          /\ ~out'.reviewed
      ]_vars

\* The query failed on a table that holds questions, before the session began.
C14_Witness ==
    /\ out.op = "take_quiz" /\ out.view = "no_questions"
    /\ ~out.input.query_ok
    /\ questions_table # <<>>
    /\ session_state = EmptyMap

\* C15: in every run of the quiz page with at least one question, the run
\* that ends the quiz by timer expiry included, a ticked Review box is
\* honoured: the review is shown.
C15_ReviewHonoured ==
    (out.op = "take_quiz" /\ out.n > 0 /\ out.input.review) => out.reviewed

\* C16: while time remains the index is below N; a run in which Submit scored
\* the quiz leaves the index at N-1; the index is N only once the time is up,
\* and no run takes the 'You have completed the quiz!' branch.
C16_IndexBelowNWhileTimeRemains ==
    /\ (Initialised /\ ~TimeIsUp) =>
           session_state.current_question < Len(questions_table)
    /\ (out.op = "take_quiz" /\ out.view = "question" /\ out.scored) =>
           session_state.current_question = out.n - 1
    /\ out.view # "completed"

\* Submit has scored a quiz of two questions with time remaining, and the
\* index is still that of the last question.
C16_Witness ==
    /\ out.op = "take_quiz" /\ out.view = "question"
    /\ out.input.clicked = "Submit" /\ out.scored
    /\ out.n >= 2
    /\ ~TimeIsUp
    /\ session_state.current_question = Len(questions_table) - 1

\* C17: once set, start_time and time_limit never change and the session
\* stays initialised; so once the time is up it stays up, every later run of
\* the quiz page with a question is again a "Time's up" run that scores, and
\* answers is never modified again.
C17_ExpiredStaysExpired ==
    [][/\ Initialised =>
              /\ Initialised'
              /\ session_state'.start_time = session_state.start_time
              /\ session_state'.time_limit = session_state.time_limit
       /\ TimeIsUp =>
              /\ TimeIsUp'
              /\ session_state'.answers = session_state.answers
       /\ (QuizRender /\ TimeIsUp) =>
              /\ out'.view = "time_up"
              /\ out'.scored
              /\ session_state'.current_question = Len(questions_table)
      ]_vars

\* The time is up, and a run in which the visitor chose an option has shown
\* "Time's up" and left answers empty.
C17_Witness ==
    /\ TimeIsUp
    /\ out.op = "take_quiz" /\ out.view = "time_up"
    /\ out.input.clicked = "none" /\ out.input.selected = "B"
    /\ session_state.answers = EmptyMap
    /\ session_state.start_time = 0

\* The session is Complete: the last run of the page found the time up, set
\* the index to N and scored the answers.
Complete ==
    /\ out.op = "take_quiz" /\ out.view = "time_up" /\ out.scored
    /\ Len(out.result.results) = out.n
    /\ session_state.current_question = out.n

\* C18: with the clock advancing and the visitor running the page on a table
\* that holds questions, a session that has begun eventually is Complete
\* with its answers scored, whatever is clicked or selected on the way.
C18_EventuallyComplete == Initialised ~> Complete

\* A session that began at 10 is Complete at 25 or later, its one answer scored
\* by a run in which no button was clicked.
C18_Witness ==
    /\ Complete
    /\ session_state.start_time = 10
    /\ now >= 25
    /\ out.input.clicked = "none"
    /\ out.input.selected = "A"
    /\ DOMAIN session_state.answers = {1}

\* C19: a run with time remaining in which Submit is clicked at index N-1
\* scores over answers that already hold the option selected in that run for
\* the last question; a run that finds the time up records no selection and
\* scores over answers as they stood before it.
C19_SelectionBeforeButtons ==
    [][/\ (/\ QuizRender /\ ~TimeIsUp
           /\ out'.input.clicked = "Submit"
           /\ out'.input.selected # Null
           /\ IndexBefore = Len(questions_table) - 1) =>
              LET N == Len(questions_table)
                  last == questions_table[N]
                  answers == session_state'.answers
              IN  /\ out'.scored
                  /\ last.id \in DOMAIN answers
                  /\ answers[last.id] = out'.input.selected
                  /\ out'.result.results[N].your_answer = out'.input.selected
                  /\ out'.result.results[N].correct =
                         (out'.input.selected = last.correct_option)
                  /\ out'.result.score = CorrectCount(questions_table, answers)
       /\ (QuizRender /\ TimeIsUp) =>
              LET answers == session_state.answers
              IN  /\ session_state'.answers = answers
                  /\ out'.result = submit_quiz(questions_table, answers)
                  /\ \A i \in 1..Len(questions_table) :
                        out'.result.results[i].your_answer =
                            IF questions_table[i].id \in DOMAIN answers
                            THEN answers[questions_table[i].id]
                            ELSE NoAnswer
      ]_vars

\* Submit at the last of two questions with "B" selected, and the score shown
\* reports "B" for that question.
C19_Witness ==
    /\ out.op = "take_quiz" /\ out.view = "question" /\ out.scored
    /\ out.input.clicked = "Submit" /\ out.input.selected = "B"
    /\ out.n = 2
    /\ out.result.results[2].your_answer = "B"
    /\ session_state.answers[2] = "B"

====
